---- MODULE Spec2Model ----
(***************************************************************************)
(* ObservableProperty<T> of src/System/ComponentModel/observable_property.rs *)
(* as a state machine.  One single-threaded program owns one cell.  The    *)
(* cell's fields are value, PropertyChanged and PropertyChanging.  A call  *)
(* of set() is followed statement by statement (pc), one step per listener *)
(* invocation, so that what a listener observes and the order of the       *)
(* invocations are visible.                                                *)
(*                                                                         *)
(* Listeners are caller code.  They are invoked with a shared reference    *)
(* `&ObservableProperty` (invoke(self) with self: &Self), so all they can  *)
(* do with the cell is read it.  Three kinds are modelled:                 *)
(*   "record"  reads get() and records it (the listeners of the test);     *)
(*   "fail"    reads get() and then panics (a failed assert_eq! in the     *)
(*             listener, as the test's listeners contain);                 *)
(*   "reenter" reads get() and then tries to call set(w), w another value, *)
(*             on the same cell through a shared handle (Rc<RefCell<..>>): *)
(*             set() needs `&mut self`, which the outer set() holds, so    *)
(*             the attempt either panics (borrow_mut) or is refused        *)
(*             (try_borrow_mut).                                           *)
(***************************************************************************)
EXTENDS Integers, Sequences, FiniteSets, TLC

\* Values of T are 0..MaxVal (T = i32 in the tests; only equality matters).
MaxVal == 2
\* Bound on the number of subscriptions to the two channels together.
MaxListeners == 3
\* Bound on the number of set() calls counted in CountSpec.
MaxCalls == 3

Values == 0..MaxVal

\* <i32 as Default>::default(), the value `#[derive(Default)]` gives the cell.
DefaultT == 0

Listeners == {"a", "b", "f", "r"}

Kind(l) == CASE l \in {"a", "b"} -> "record"
             [] l = "f" -> "fail"
             [] l = "r" -> "reenter"

VARIABLES
    value,              \* self.value
    PropertyChanged,    \* self.PropertyChanged: listeners in subscription order
    PropertyChanging,   \* self.PropertyChanging: listeners in subscription order
    pc,                 \* position of the program in set()/SetProperty
    arg,                \* the argument `value` of the set() call in progress
    idx,                \* position of Event::invoke in the listener sequence
    result,             \* outcome of the latest set(): "none" before it ends
    old,                \* history: value the cell held when the call started
    log,                \* history: listener invocations of the latest call,
                        \*   kept until the next operation on the cell
    lastSet,            \* history: constructor argument, then the argument of
                        \*   the latest set() that returned true
    lastWritten,        \* history: as lastSet, but also the argument of a
                        \*   set() that unwound out of its "changed" phase
    fresh,              \* history: nothing has been done since construction
    ctor,               \* history: the constructor used, until the cell is used
    got,                \* history: what a get() made in the latest step returned
    subs,               \* history: the listeners handed to add(), per channel
    tally               \* history: the listeners' counters (CountSpec)

vars == <<value, PropertyChanged, PropertyChanging, pc, arg, idx, result,
          old, log, lastSet, lastWritten, fresh, ctor, got, subs, tally>>

cell == <<value, PropertyChanged, PropertyChanging>>
hist == <<lastSet, lastWritten>>

----------------------------------------------------------------------------
\* Construction

\* Faulty variant (C12): a hand-written Default that starts from another value.
Default_OtherValue == [value |-> MaxVal, PropertyChanged |-> <<>>, PropertyChanging |-> <<>>]

\* #[derive(Default)]: every field takes its type's default.
Default == [value |-> DefaultT, PropertyChanged |-> <<>>, PropertyChanging |-> <<>>]

\* Faulty variant (C3): the argument is dropped and the default is kept.
New_DropsValue(v) == Default

\* new(value): Self { value, ..Default::default() }
New(v) == [Default EXCEPT !.value = v]

\* GetValue(&self) -> &T
GetValue == value

\* get(&self) -> T: a clone of what GetValue refers to
get == GetValue

\* The listeners' counters before anything is counted; `first` is the value
\* the cell had when counting began.
NoTally ==
    [first |-> DefaultT, calls |-> 0, differ |-> 0, trues |-> 0,
     changing |-> [i \in 1..MaxListeners |-> 0],
     changed |-> [i \in 1..MaxListeners |-> 0]]

\* ObservableProperty::new(v) for any v, or ObservableProperty::default().
Init ==
    \E c \in {"new", "default"} : \E a \in Values :
        LET v == IF c = "new" THEN a ELSE DefaultT
            made == IF c = "new" THEN New(v) ELSE Default
        IN  /\ value = made.value
            /\ PropertyChanged = made.PropertyChanged
            /\ PropertyChanging = made.PropertyChanging
            /\ pc = "idle"
            /\ arg = v
            /\ idx = 1
            /\ result = "none"
            /\ old = v
            /\ log = <<>>
            /\ lastSet = v
            /\ lastWritten = v
            /\ fresh = TRUE
            /\ ctor = c
            /\ got = <<>>
            /\ subs = [changing |-> <<>>, changed |-> <<>>]
            /\ tally = NoTally

----------------------------------------------------------------------------
\* Subscription: prop.PropertyChanged.add(l) / prop.PropertyChanging.add(l)

\* Faulty variant (C13): a listener already in the sequence is not added again.
Add_Unique(handlers, l) ==
    IF \E i \in DOMAIN handlers : handlers[i] = l THEN handlers ELSE Append(handlers, l)

\* Event::add: the listener goes to the end of the sequence.
Add(handlers, l) == Append(handlers, l)

CanSubscribe ==
    /\ pc = "idle"
    /\ Len(PropertyChanged) + Len(PropertyChanging) < MaxListeners

\* The record of the latest set() call is dropped when the next operation on
\* the cell begins.
NewRecord ==
    /\ result' = "none"
    /\ arg' = value
    /\ old' = value
    /\ fresh' = FALSE

\* Faulty variant (C10): a new listener is called at once, outside any set().
SubscribeChanged_Replays ==
    /\ CanSubscribe
    /\ \E l \in Listeners :
          /\ PropertyChanged' = Add(PropertyChanged, l)
          /\ subs' = [subs EXCEPT !.changed = Append(@, l)]
          /\ log' = <<[chan |-> "changed", pos |-> Len(PropertyChanged) + 1,
                       listener |-> l, seen |-> get, attempt |-> <<>>]>>
    /\ NewRecord
    /\ UNCHANGED <<value, PropertyChanging, pc, idx, hist>>

\* prop.PropertyChanged.add(l)
SubscribeChanged ==
    /\ CanSubscribe
    /\ \E l \in Listeners :
          /\ PropertyChanged' = Add(PropertyChanged, l)
          /\ subs' = [subs EXCEPT !.changed = Append(@, l)]
    /\ NewRecord
    /\ log' = <<>>
    /\ UNCHANGED <<value, PropertyChanging, pc, idx, hist>>

\* Faulty variant (C14): subscribing puts the cell back to the default value.
SubscribeChanging_ResetsValue ==
    /\ CanSubscribe
    /\ \E l \in Listeners :
          /\ PropertyChanging' = Add(PropertyChanging, l)
          /\ subs' = [subs EXCEPT !.changing = Append(@, l)]
    /\ NewRecord
    /\ log' = <<>>
    /\ value' = DefaultT
    /\ UNCHANGED <<PropertyChanged, pc, idx, hist>>

\* prop.PropertyChanging.add(l)
SubscribeChanging ==
    /\ CanSubscribe
    /\ \E l \in Listeners :
          /\ PropertyChanging' = Add(PropertyChanging, l)
          /\ subs' = [subs EXCEPT !.changing = Append(@, l)]
    /\ NewRecord
    /\ log' = <<>>
    /\ UNCHANGED <<value, PropertyChanged, pc, idx, hist>>

----------------------------------------------------------------------------
\* set(v) -> SetValue(v) -> SetProperty(v)

\* The caller writes through one of the two public entry points, prop.set(v)
\* or prop.SetValue(v).
Call ==
    /\ pc = "idle"
    /\ \E v \in Values : arg' = v
    /\ \E entry \in {"set", "SetValue"} : pc' = entry
    /\ idx' = 1
    /\ result' = "none"
    /\ old' = value
    /\ log' = <<>>
    /\ fresh' = FALSE
    /\ UNCHANGED <<cell, hist>>

\* Faulty variant (C15): set() passes the default on instead of its argument.
set_PassesDefault ==
    /\ pc = "set"
    /\ pc' = "SetValue"
    /\ arg' = DefaultT
    /\ UNCHANGED <<cell, idx, result, old, log, hist, fresh>>

\* set(&mut self, value) -> bool { self.SetValue(value) }
set ==
    /\ pc = "set"
    /\ pc' = "SetValue"
    /\ UNCHANGED <<cell, arg, idx, result, old, log, hist, fresh>>

\* SetValue(&mut self, value) -> bool { self.SetProperty(value) }
SetValue ==
    /\ pc = "SetValue"
    /\ pc' = "SetProperty"
    /\ UNCHANGED <<cell, arg, idx, result, old, log, hist, fresh>>

\* Faulty variant (C1): the assignment is made before the "changing" listeners run.
SetPropertyCompare_AssignsFirst ==
    /\ pc = "SetProperty"
    /\ IF value = arg
          THEN /\ pc' = "idle"
               /\ result' = "false"
               /\ value' = value
          ELSE /\ pc' = "changing"
               /\ result' = result
               /\ value' = arg
    /\ UNCHANGED <<PropertyChanged, PropertyChanging, arg, idx, old, log, hist, fresh>>

\* Faulty variant (C2): the equality gate is missing.
SetPropertyCompare_NoGate ==
    /\ pc = "SetProperty"
    /\ pc' = "changing"
    /\ UNCHANGED <<cell, arg, idx, result, old, log, hist, fresh>>

\* Faulty variant (C9): on an equal write the function calls itself instead of
\* returning, and never comes back.
SetPropertyCompare_Diverges ==
    /\ pc = "SetProperty"
    /\ IF value = arg
          THEN /\ pc' = pc
               /\ result' = result
          ELSE /\ pc' = "changing"
               /\ result' = result
    /\ UNCHANGED <<cell, arg, idx, old, log, hist, fresh>>

\* if self.value == value { return false; }
SetPropertyCompare ==
    /\ pc = "SetProperty"
    /\ IF value = arg
          THEN /\ pc' = "idle"
               /\ result' = "false"
          ELSE /\ pc' = "changing"
               /\ result' = result
    /\ UNCHANGED <<cell, arg, idx, old, log, hist, fresh>>

\* What one invocation of a listener leaves in the shared log.
Notification(chan, l, attempt) ==
    [chan |-> chan, pos |-> idx, listener |-> l, seen |-> get, attempt |-> attempt]

\* Faulty variant (C6, C7): the listener is handed a cell it can write.
SharedAccess_Writes(w) == value' = w

\* A listener's set(w) on the cell it was invoked for.  The listener holds
\* `&ObservableProperty` (OnPropertyChanged(&self), OnPropertyChanging(&self))
\* and set() takes `&mut self`, which the running set() holds: the nested
\* SetProperty is never entered and the cell is as it was.
SharedAccess(w) == value' = value

\* The listener's panic unwinds: out of invoke, out of SetProperty, out of set.
Unwind(chan) ==
    /\ pc' = "panicked"
    /\ result' = "panic"
    /\ lastWritten' = IF chan = "changed" THEN arg ELSE lastWritten
    /\ idx' = 1

\* The value a re-entering listener asks for: one other than the value it sees.
Other(v) == (v + 1) % (MaxVal + 1)

\* The listener at position idx of `handlers` runs.
RunListener(chan, handlers) ==
    LET l == handlers[idx] IN
    \/ /\ Kind(l) = "record"
       /\ log' = Append(log, Notification(chan, l, <<>>))
       /\ idx' = idx + 1
       /\ UNCHANGED <<value, pc, result, lastWritten>>
    \/ /\ Kind(l) = "fail"
       /\ log' = Append(log, Notification(chan, l, <<>>))
       /\ Unwind(chan)
       /\ UNCHANGED value
    \/ /\ Kind(l) = "reenter"
       /\ log' = Append(log, Notification(chan, l, <<Other(get)>>))
       /\ SharedAccess(Other(get))
       /\ \/ /\ idx' = idx + 1                 \* try_borrow_mut: refused
             /\ UNCHANGED <<pc, result, lastWritten>>
          \/ Unwind(chan)                      \* borrow_mut: BorrowMutError

\* Event::invoke, over a given sequence of listeners.
InvokeSeq(chan, handlers, done) ==
    \/ /\ idx <= Len(handlers)
       /\ RunListener(chan, handlers)
    \/ /\ idx > Len(handlers)
       /\ pc' = done
       /\ idx' = 1
       /\ UNCHANGED <<value, log, result, lastWritten>>

Reverse(s) == [i \in 1..Len(s) |-> s[Len(s) + 1 - i]]

\* Faulty variant (C4): the listeners are called last-subscribed first.
Invoke_Reversed(chan, handlers, done) == InvokeSeq(chan, Reverse(handlers), done)

\* Event::invoke(&self, arg): every listener of the sequence, in subscription
\* order; a panic of a listener unwinds through invoke.
Invoke(chan, handlers, done) == InvokeSeq(chan, handlers, done)

\* Faulty variant (C8): a failure of a "changing" listener is swallowed and the write
\* goes on.
OnPropertyChanging_Swallows ==
    /\ pc = "changing"
    /\ \/ Invoke("changing", PropertyChanging, "mutate")
       \/ /\ idx <= Len(PropertyChanging)
          /\ Kind(PropertyChanging[idx]) = "fail"
          /\ log' = Append(log, Notification("changing", PropertyChanging[idx], <<>>))
          /\ pc' = "mutate"
          /\ idx' = 1
          /\ UNCHANGED <<value, result, lastWritten>>
    /\ UNCHANGED <<PropertyChanged, PropertyChanging, arg, old, lastSet, fresh>>

\* self.OnPropertyChanging(): self.PropertyChanging.invoke(self)
OnPropertyChanging ==
    /\ pc = "changing"
    /\ Invoke("changing", PropertyChanging, "mutate")
    /\ UNCHANGED <<PropertyChanged, PropertyChanging, arg, old, lastSet, fresh>>

\* Faulty variant (C5): the new value is never stored.
SetPropertyAssign_Forgets ==
    /\ pc = "mutate"
    /\ pc' = "changed"
    /\ UNCHANGED <<cell, arg, idx, result, old, log, hist, fresh>>

\* self.value = value;
SetPropertyAssign ==
    /\ pc = "mutate"
    /\ value' = arg
    /\ pc' = "changed"
    /\ UNCHANGED <<PropertyChanged, PropertyChanging, arg, idx, result, old,
                   log, hist, fresh>>

\* Faulty variant (C16): a failure of a "changed" listener puts the old value
\* back.
OnPropertyChanged_RollsBack ==
    /\ pc = "changed"
    /\ IF idx <= Len(PropertyChanged) /\ Kind(PropertyChanged[idx]) = "fail"
          THEN /\ log' = Append(log, Notification("changed", PropertyChanged[idx], <<>>))
               /\ Unwind("changed")
               /\ value' = old
          ELSE Invoke("changed", PropertyChanged, "return")
    /\ UNCHANGED <<PropertyChanged, PropertyChanging, arg, old, lastSet, fresh>>

\* Faulty variant (C17): the "changing" event is raised a second time in place
\* of the "changed" event.
OnPropertyChanged_FiresChanging ==
    /\ pc = "changed"
    /\ Invoke("changed", PropertyChanging, "return")
    /\ UNCHANGED <<PropertyChanged, PropertyChanging, arg, old, lastSet, fresh>>

\* self.OnPropertyChanged(): self.PropertyChanged.invoke(self)
OnPropertyChanged ==
    /\ pc = "changed"
    /\ Invoke("changed", PropertyChanged, "return")
    /\ UNCHANGED <<PropertyChanged, PropertyChanging, arg, old, lastSet, fresh>>

\* true
SetPropertyReturn ==
    /\ pc = "return"
    /\ pc' = "idle"
    /\ result' = "true"
    /\ lastSet' = arg
    /\ lastWritten' = arg
    /\ UNCHANGED <<cell, arg, idx, old, log, fresh>>

\* The caller of set() catches the unwinding panic and goes on using the cell.
Recover ==
    /\ pc = "panicked"
    /\ pc' = "idle"
    /\ UNCHANGED <<cell, arg, idx, result, old, log, hist, fresh>>

\* Faulty variant (C11): get() moves the value out and leaves the default.
Get_Takes ==
    /\ pc \in {"idle", "changing", "changed"}
    /\ got' = <<get>>
    /\ value' = DefaultT
    /\ UNCHANGED <<PropertyChanged, PropertyChanging, pc, arg, idx, result, old,
                   log, hist, fresh, ctor, subs, tally>>

\* prop.get() / prop.GetValue(), called by the owner of the cell when no write
\* is running, or by a listener through the reference it is invoked with.
Get ==
    /\ pc \in {"idle", "changing", "changed"}
    /\ got' = <<get>>
    /\ UNCHANGED <<cell, pc, arg, idx, result, old, log, hist, fresh, ctor,
                   subs, tally>>

\* What a step other than a get() leaves of the history of get() and of the
\* constructor; the counters count in CountSpec only.
Aside ==
    /\ got' = <<>>
    /\ ctor' = "used"
    /\ UNCHANGED tally

SetPropertyStep ==
    /\ \/ set
       \/ SetValue
       \/ SetPropertyCompare
       \/ OnPropertyChanging
       \/ SetPropertyAssign
       \/ OnPropertyChanged
       \/ SetPropertyReturn
    /\ Aside
    /\ UNCHANGED subs

Next ==
    \/ SubscribeChanged /\ Aside
    \/ SubscribeChanging /\ Aside
    \/ Call /\ Aside /\ UNCHANGED subs
    \/ set /\ Aside /\ UNCHANGED subs
    \/ SetValue /\ Aside /\ UNCHANGED subs
    \/ SetPropertyCompare /\ Aside /\ UNCHANGED subs
    \/ OnPropertyChanging /\ Aside /\ UNCHANGED subs
    \/ SetPropertyAssign /\ Aside /\ UNCHANGED subs
    \/ OnPropertyChanged /\ Aside /\ UNCHANGED subs
    \/ SetPropertyReturn /\ Aside /\ UNCHANGED subs
    \/ Recover /\ Aside /\ UNCHANGED subs
    \/ Get

Spec == Init /\ [][Next]_vars

\* set() is synchronous: once called, the thread keeps executing it.
FairSpec == Spec /\ WF_vars(SetPropertyStep)

----------------------------------------------------------------------------
\* Counting: a cell whose listeners are fixed and only record.  Each listener
\* keeps a counter of its invocations, as the listeners of the test do; the
\* caller counts its calls, those whose argument differed from the value the
\* cell held, and those that returned true.

RecorderSeqs(n) == UNION {[1..k -> {l \in Listeners : Kind(l) = "record"}] : k \in 0..n}

\* The cell after new(v) and the subscription of recording listeners.
InitCount ==
    \E v \in Values : \E chg \in RecorderSeqs(MaxListeners) :
        \E chd \in RecorderSeqs(MaxListeners - Len(chg)) :
            /\ value = New(v).value
            /\ PropertyChanging = chg
            /\ PropertyChanged = chd
            /\ pc = "idle"
            /\ arg = v
            /\ idx = 1
            /\ result = "none"
            /\ old = v
            /\ log = <<>>
            /\ lastSet = v
            /\ lastWritten = v
            /\ fresh = FALSE
            /\ ctor = "used"
            /\ got = <<>>
            /\ subs = [changing |-> chg, changed |-> chd]
            /\ tally = [NoTally EXCEPT !.first = v]

Still == UNCHANGED <<got, ctor, subs>>

\* The counter of the listener that ran in this step, if one did, goes up.
Counted(chan) ==
    IF Len(log') > Len(log)
       THEN [tally EXCEPT ![chan][idx] = @ + 1]
       ELSE tally

NextCount ==
    \/ /\ tally.calls < MaxCalls
       /\ Call
       /\ tally' = [tally EXCEPT !.calls = @ + 1,
                                 !.differ = @ + (IF arg' # value THEN 1 ELSE 0)]
       /\ Still
    \/ set /\ UNCHANGED tally /\ Still
    \/ SetValue /\ UNCHANGED tally /\ Still
    \/ SetPropertyCompare /\ UNCHANGED tally /\ Still
    \/ OnPropertyChanging /\ tally' = Counted("changing") /\ Still
    \/ SetPropertyAssign /\ UNCHANGED tally /\ Still
    \/ OnPropertyChanged /\ tally' = Counted("changed") /\ Still
    \/ SetPropertyReturn /\ tally' = [tally EXCEPT !.trues = @ + 1] /\ Still

CountSpec == InitCount /\ [][NextCount]_vars

TypeOK ==
    /\ value \in Values
    /\ arg \in Values
    /\ pc \in {"idle", "set", "SetValue", "SetProperty", "changing", "mutate",
              "changed", "return", "panicked"}
    /\ result \in {"none", "true", "false", "panic"}
----------------------------------------------------------------------------
\* Properties

Last(s) == s[Len(s)]

Entries(chan) == SelectSeq(log, LAMBDA e : e.chan = chan)

\* The log a complete, undisturbed write leaves: every "changing" listener once,
\* in order, seeing the value before the call, then every "changed" listener
\* once, in order, seeing the argument.
ExpectedLog ==
    [i \in 1..Len(PropertyChanging) |->
        [chan |-> "changing", pos |-> i, listener |-> PropertyChanging[i], seen |-> old]]
    \o
    [i \in 1..Len(PropertyChanged) |->
        [chan |-> "changed", pos |-> i, listener |-> PropertyChanged[i], seen |-> arg]]

Observed ==
    [i \in 1..Len(log) |->
        [chan |-> log[i].chan, pos |-> log[i].pos, listener |-> log[i].listener,
         seen |-> log[i].seen]]

\* C1: a set(v2) on a cell holding v1 # v2 that returns, returns true; by then
\* every "changing" listener has run exactly once and seen v1, after them every
\* "changed" listener has run exactly once and seen v2, and the cell holds v2.
\* At no moment of a call has a "changed" listener run before the last
\* "changing" listener, a "changing" listener seen anything but v1, or a
\* "changed" listener anything but v2.
C1_ChangingThenChanged ==
    /\ (pc = "idle" /\ result = "false") => old = arg
    /\ pc = "return" => /\ old # arg
                        /\ get = arg
                        /\ Observed = ExpectedLog
    /\ (pc = "idle" /\ result = "true") => /\ old # arg
                                           /\ get = arg
    /\ \A i \in DOMAIN log :
          /\ log[i].chan = "changing" => log[i].seen = old
          /\ log[i].chan = "changed" => log[i].seen = arg
          /\ \A j \in DOMAIN log :
                (i < j /\ log[i].chan = "changed") => log[j].chan = "changed"
    /\ (pc # "idle" /\ Entries("changed") # <<>>) =>
          Len(Entries("changing")) = Len(PropertyChanging)

\* A write that changed the value has returned true after notifying listeners
\* of both channels.
C1_Witness ==
    /\ pc = "idle"
    /\ result = "true"
    /\ old # arg
    /\ Entries("changing") # <<>>
    /\ Entries("changed") # <<>>

\* C2: set(v) on a cell holding v returns false, calls no listener of either
\* channel and leaves the value as it was; and only such a call returns false.
C2_EqualWriteIsNoOp ==
    /\ result = "false" => /\ pc = "idle"
                           /\ old = arg
                           /\ get = old
                           /\ log = <<>>
    /\ (pc # "idle" /\ old = arg) => /\ pc \in {"set", "SetValue", "SetProperty"}
                                     /\ log = <<>>
                                     /\ get = old

\* An equal write has returned false on a cell that has listeners on both
\* channels.
C2_Witness ==
    /\ pc = "idle"
    /\ result = "false"
    /\ PropertyChanging # <<>>
    /\ PropertyChanged # <<>>
    /\ ~fresh

\* C3: right after new(v) the cell has no listener on either channel, get()
\* returns v, and no listener has been called.
C3_NewHoldsValue ==
    fresh => /\ get = lastSet
             /\ PropertyChanged = <<>>
             /\ PropertyChanging = <<>>
             /\ log = <<>>
             /\ pc = "idle"

\* A cell constructed with a value other than the default.
C3_Witness == fresh /\ get = MaxVal /\ lastSet # DefaultT

Channel(chan) == IF chan = "changing" THEN PropertyChanging ELSE PropertyChanged

\* C4: in each channel the k-th listener called during a write is the k-th
\* subscribed one.
C4_InvocationOrder ==
    \A chan \in {"changing", "changed"} :
        \A k \in DOMAIN Entries(chan) :
            /\ Entries(chan)[k].pos = k
            /\ k <= Len(Channel(chan))
            /\ Entries(chan)[k].listener = Channel(chan)[k]

\* Three different listeners of one channel have been called, after an earlier
\* write.
C4_Witness ==
    /\ \E chan \in {"changing", "changed"} :
          /\ Len(Entries(chan)) >= 3
          /\ Entries(chan)[1].listener # Entries(chan)[2].listener
          /\ Entries(chan)[2].listener # Entries(chan)[3].listener
          /\ Entries(chan)[1].listener # Entries(chan)[3].listener
    /\ lastSet # old

\* C5 as claimed: outside a write get() returns the argument of the latest
\* set() that returned true, or the constructor's argument if there is none.
C5_LastReturnedTrue == pc = "idle" => get = lastSet

\* C5: outside a write get() returns the argument of the latest set() that
\* returned true or that a failing "changed" listener aborted (the assignment
\* is behind it by then), or the constructor's argument if there is none.
C5_LastWritten == pc \in {"idle", "panicked"} => get = lastWritten

\* A write was aborted by a "changed" listener, the caller went on, and the
\* cell holds the argument of that write.
C5_Witness ==
    /\ pc = "idle"
    /\ result = "panic"
    /\ get = arg
    /\ get # lastSet

\* Log entries of listeners that tried a set(w) with w other than the value
\* they saw.
Attempts == {i \in DOMAIN log : log[i].attempt # <<>> /\ log[i].attempt[1] # log[i].seen}

C8_ErrorPropagates ==
    /\ pc = "panicked" => result = "panic"
    /\ result = "panic" => /\ pc \in {"panicked", "idle"}
                           /\ log # <<>>
                           /\ Kind(Last(log).listener) \in {"fail", "reenter"}
    /\ \A i \in DOMAIN log :
          Kind(log[i].listener) = "fail" => i = Len(log) /\ result = "panic"

\* A listener has failed with listeners subscribed after it in its channel.
C8_Witness ==
    /\ pc = "panicked"
    /\ Kind(Last(log).listener) = "fail"
    /\ Last(log).pos < Len(Channel(Last(log).chan))

Returned == pc = "idle" /\ result \in {"true", "false"}

\* C9: a set() call ends: it returns true or false, unless a listener it
\* called raised an error; nothing else makes it fail.
C9_SetTerminates ==
    /\ (pc \in {"set", "SetValue", "SetProperty"}) ~> (Returned \/ pc = "panicked")
    /\ [][(pc # "panicked" /\ pc' = "panicked") =>
              /\ pc \in {"changing", "changed"}
              /\ Len(log') = Len(log) + 1
              /\ Kind(Last(log').listener) \in {"fail", "reenter"}]_vars

\* A write has returned true after calling as many listeners as the bound allows.
C9_Witness == Returned /\ Len(log) >= MaxListeners

\* C10: a listener is called only by a step of a set() call in progress, so
\* when set() has returned all its notifications are behind it.
C10_NoDeferredNotification ==
    [][log' # log =>
          \/ pc \in {"changing", "changed"} /\ Len(log') = Len(log) + 1
          \/ pc = "idle" /\ log' = <<>>]_vars

\* A write has returned false without calling the listeners the cell has, after
\* a write that changed the value.
C10_Witness ==
    /\ pc = "idle"
    /\ result = "false"
    /\ log = <<>>
    /\ PropertyChanged # <<>>
    /\ lastSet = get
    /\ lastSet # DefaultT

\* C11: a get(), made by the owner between writes or by a listener during one,
\* returns the value the cell holds at that moment and changes nothing: not
\* the value, not a channel, not the progress of the write, and it calls no
\* listener.
C11_GetIsPure ==
    [][got' # <<>> =>
          /\ got' = <<value>>
          /\ value' = value
          /\ PropertyChanged' = PropertyChanged
          /\ PropertyChanging' = PropertyChanging
          /\ log' = log
          /\ <<pc, arg, idx, result>>' = <<pc, arg, idx, result>>]_vars

\* A get() made while the "changed" listeners of a write run has returned the
\* new value.
C11_Witness ==
    /\ got # <<>>
    /\ pc = "changed"
    /\ log # <<>>
    /\ got[1] = arg
    /\ got[1] # old

\* C12: the cell default() makes is the cell new(default of T) makes: the
\* default value and no listener on either channel.  Whatever is done next
\* depends on the cell alone, so it goes the same way for both.
C12_DefaultIsNewOfDefault ==
    (fresh /\ ctor = "default") =>
        /\ value = New(DefaultT).value
        /\ PropertyChanged = New(DefaultT).PropertyChanged
        /\ PropertyChanging = New(DefaultT).PropertyChanging
        /\ get = DefaultT
        /\ pc = "idle"
        /\ log = <<>>

\* A cell made by default(), not used yet.
C12_Witness == fresh /\ ctor = "default" /\ subs.changed = <<>> /\ subs.changing = <<>>

\* Positions of listener l in a sequence of listeners.
Positions(handlers, l) == {k \in DOMAIN handlers : handlers[k] = l}

\* C13: a channel holds the listeners handed to add() in the order they were
\* handed, one place for every add(), and a write that goes through has called
\* a listener once for each of its places in the channel.
C13_SubscribeAppends ==
    /\ PropertyChanging = subs.changing
    /\ PropertyChanged = subs.changed
    /\ pc = "return" =>
          \A chan \in {"changing", "changed"} : \A l \in Listeners :
              {Entries(chan)[k].pos : k \in Positions([k \in DOMAIN Entries(chan) |->
                                           Entries(chan)[k].listener], l)}
                  = Positions(subs[chan], l)

\* A write has gone through a channel that holds the same listener twice, with
\* another one between.
C13_Witness ==
    /\ pc = "return"
    /\ \E chan \in {"changing", "changed"} :
          /\ Len(subs[chan]) = 3
          /\ subs[chan][1] = subs[chan][3]
          /\ subs[chan][1] # subs[chan][2]
          /\ Len(Entries(chan)) = 3

\* C14: the value changes in one step only, the assignment of a write whose
\* argument differs from it; subscribing leaves the value alone and calls no
\* listener, and a write of the value the cell holds changes nothing.
C14_OnlyWriteChangesValue ==
    [][/\ value' # value => (pc = "mutate" /\ value' = arg /\ old # arg)
       /\ (PropertyChanged' # PropertyChanged \/ PropertyChanging' # PropertyChanging) =>
             (value' = value /\ log' = <<>> /\ pc = "idle" /\ pc' = "idle")
       /\ (pc = "SetProperty" /\ value = arg) =>
             /\ value' = value
             /\ pc' = "idle"
             /\ log' = log
             /\ PropertyChanged' = PropertyChanged
             /\ PropertyChanging' = PropertyChanging]_vars

\* A listener has been subscribed to each channel of a cell that a write had
\* changed before; the value is the written one and no listener has been called.
C14_Witness ==
    /\ pc = "idle"
    /\ result = "none"
    /\ log = <<>>
    /\ PropertyChanging # <<>>
    /\ PropertyChanged # <<>>
    /\ get = lastSet
    /\ get # DefaultT
    /\ ~fresh

\* C15: set(v) does nothing but call SetValue(v), and SetValue(v) nothing but
\* call SetProperty(v), whose result both hand back: from the call on, a write
\* through set is the write through SetValue.  get() is a copy of what
\* GetValue() refers to.
C15_EntryPointsAgree ==
    /\ [][/\ pc = "set" =>
                /\ pc' = "SetValue"
                /\ <<value, PropertyChanged, PropertyChanging, arg, result, old, log>>'
                      = <<value, PropertyChanged, PropertyChanging, arg, result, old, log>>
          /\ pc = "SetValue" =>
                /\ pc' = "SetProperty"
                /\ <<value, PropertyChanged, PropertyChanging, arg, result, old, log>>'
                      = <<value, PropertyChanged, PropertyChanging, arg, result, old, log>>]_vars
    /\ [](get = GetValue)

\* A write of another value to a cell with listeners has come to SetValue,
\* where the two entry points meet.
C15_Witness ==
    /\ pc = "SetValue"
    /\ arg # value
    /\ arg # DefaultT
    /\ PropertyChanging # <<>>
    /\ PropertyChanged # <<>>

\* C16: when a "changing" listener fails, the cell holds the value it held
\* before the call and no "changed" listener has been called; when a "changed"
\* listener fails, the cell holds the argument of the call.
C16_FailureAndValue ==
    \A i \in DOMAIN log :
        Kind(log[i].listener) = "fail" =>
            /\ old # arg
            /\ log[i].chan = "changing" =>
                  /\ Entries("changed") = <<>>
                  /\ get = old
            /\ log[i].chan = "changed" => get = arg

\* A "changing" listener has failed in a write to a cell that has "changed"
\* listeners.
C16_Witness ==
    /\ pc = "panicked"
    /\ Kind(Last(log).listener) = "fail"
    /\ Last(log).chan = "changing"
    /\ PropertyChanged # <<>>

\* C17: with listeners that are fixed and only record, after any number of
\* set() calls every "changing" listener and every "changed" listener has been
\* called as many times as set() has returned true, and set() has returned
\* true once for every call whose argument differed from the value the cell
\* held: no two writes are merged into one notification.
C17_CountsAgree ==
    pc = "idle" =>
        /\ \A i \in DOMAIN PropertyChanging : tally.changing[i] = tally.trues
        /\ \A i \in DOMAIN PropertyChanged : tally.changed[i] = tally.trues
        /\ \A i \in 1..MaxListeners :
              /\ i > Len(PropertyChanging) => tally.changing[i] = 0
              /\ i > Len(PropertyChanged) => tally.changed[i] = 0
        /\ tally.trues = tally.differ

\* After v -> w -> v the cell holds the value it began with and the listeners
\* of both channels have been called twice each.
C17_Witness ==
    /\ pc = "idle"
    /\ tally.calls = 2
    /\ tally.trues = 2
    /\ get = tally.first
    /\ PropertyChanging # <<>>
    /\ PropertyChanged # <<>>
    /\ tally.changing[1] = 2
    /\ tally.changed[1] = 2
====
